---- MODULE Spec2Model ----
(***************************************************************************)
(* extract-variant: a compile-time generator that turns every alternative *)
(* of a tagged union into a standalone record plus a conversion pair.     *)
(*                                                                         *)
(* Two entry points process a union:                                       *)
(*   "derive"    -- extract_variant.rs, doit(item_enum)                    *)
(*   "attribute" -- lib.rs, extract_variant(attr_args, input)              *)
(* A pass is modelled stage by stage (validate, config, variants, done);   *)
(* the generated conversions are then run on record and union values.      *)
(* Two more entry points tie a record the user wrote to an alternative:    *)
(*   "variant_of"        -- lib.rs, variant_of(attr_args, input)           *)
(*   "variant_of_derive" -- variant_of.rs, doit(item_struct)               *)
(***************************************************************************)
EXTENDS Integers, Sequences, FiniteSets, TLC

VARIABLES
    entry,      \* which entry point runs the pass
    attr_args,  \* the argument tokens of the attribute macro (lib.rs:211)
    item_enum,  \* the union definition handed to the pass
    input_struct, \* the record handed to a link pass (variant_of)
    pc,         \* stage of the pass
    config,     \* prefix / suffix / no_impl once resolved
    idx,        \* next alternative of item_enum.variants to process
    acc,        \* declarations accumulated by the fold
    result,     \* outcome of the pass
    out,        \* the output unit returned to the host
    run         \* last call of a generated conversion

vars == <<entry, attr_args, item_enum, input_struct, pc, config, idx, acc, result, out, run>>

(***************************************************************************)
(* Bounds of the model.                                                    *)
(***************************************************************************)
\* alternatives of the union
NumVariants == 3
\* metadata entries (and macro argument tokens) of one input, all together
MaxAttrs == 3
\* the same, for the inputs whose generated conversions are run
MaxConvAttrs == 2
\* argument tokens of one variant_of entry
MaxLinkTokens == 3

(***************************************************************************)
(* Small helpers.                                                          *)
(***************************************************************************)
Ok(v) == [ok |-> TRUE, v |-> v]
Err(e) == [ok |-> FALSE, e |-> e]
None == [some |-> FALSE]
Some(x) == [some |-> TRUE, v |-> x]

SeqsUpTo(S, n) == UNION {[1..k -> S] : k \in 0..n}

RECURSIVE Concat(_)
\* quote! { #a #b ... }: the token streams of a list, one after the other
Concat(ss) == IF ss = <<>> THEN <<>> ELSE Head(ss) \o Concat(Tail(ss))

Digit == <<"0", "1", "2", "3", "4", "5", "6", "7", "8", "9">>

RECURSIVE FormatNat(_)
\* format!("{}", i) for a natural number
FormatNat(i) == IF i < 10 THEN Digit[i + 1]
               ELSE FormatNat(i \div 10) \o Digit[(i % 10) + 1]

\* a source position
Span(at, n) == [at |-> at, n |-> n]
CallSite == Span("call_site", 0)

\* proc_macro2::Ident: its text and the span it carries
Ident(text, span) == [text |-> text, span |-> span]

(***************************************************************************)
(* Syntax trees of the input.                                              *)
(***************************************************************************)
\* argument tokens of one metadata entry
NoArg == [kind |-> "none", text |-> "", attrs |-> <<>>]
IdentArg(t) == [kind |-> "ident", text |-> t, attrs |-> <<>>]
ListArg(t) == [kind |-> "list", text |-> t, attrs |-> <<>>]
NestedArg(key, t) == [kind |-> "nested", text |-> key \o "(" \o t \o ")", attrs |-> <<>>]
AttrsArg(as) == [kind |-> "attrs", text |-> "", attrs |-> as]
GroupArg(as) == [kind |-> "group", text |-> "", attrs |-> as]

Attr(path, arg) == [path |-> path, arg |-> arg]

\* payload of a variant_attrs entry: #[derive(Clone)] #[cfg(test)]
Payload == <<Attr("derive", ListArg("Clone")), Attr("cfg", ListArg("test"))>>

\* metadata entries a union may carry
EnumAttrAlphabet ==
    { Attr("prefix", IdentArg("MyEnum")),
      Attr("prefix", NoArg),
      Attr("suffix", IdentArg("Struct")),
      Attr("no_impl", NoArg),
      Attr("derive", ListArg("Debug")),
      Attr("extract_variant", NestedArg("prefix", "MyEnum")) }

\* metadata entries an alternative may carry
VariantAttrAlphabet ==
    { Attr("exclude", NoArg),
      Attr("variant_attrs", AttrsArg(Payload)),
      Attr("variant_attrs", GroupArg(Payload)),
      Attr("doc", ListArg("first")),
      Attr("doc", ListArg("second")) }

\* argument tokens of #[extract_variant(...)] as the attribute macro gets them
ArgTokenAlphabet ==
    { [key |-> "prefix", text |-> "MyEnum"],
      [key |-> "suffix", text |-> "Struct"],
      [key |-> "no_impl", text |-> ""],
      [key |-> ",", text |-> ""] }

Field(name, ty) == [vis |-> "inherited", ident |-> name, ty |-> ty]

\* the three shapes, as in the union of tests/test.rs
ShapeOf(i) ==
    CASE i % 3 = 1 -> [shape |-> "unit", list |-> <<>>]
      [] i % 3 = 2 -> [shape |-> "unnamed",
                       list |-> <<Field("", "i32"), Field("", "String")>>]
      [] OTHER     -> [shape |-> "named",
                       list |-> <<Field("field1", "bool"), Field("field2", "f32")>>]

\* syn::Variant
Variant(i, attrs) ==
    [ident  |-> Ident("Variant" \o FormatNat(i), Span("variant", i)),
     fields |-> ShapeOf(i),
     attrs  |-> attrs]

RECURSIVE AttrAssignments(_, _)
\* the ways to give n alternatives metadata entries, budget entries in all
AttrAssignments(n, budget) ==
    IF n = 0 THEN {<<>>}
    ELSE UNION { { Append(rest, l) : rest \in AttrAssignments(n - 1, budget - Len(l)) }
                 : l \in SeqsUpTo(VariantAttrAlphabet, budget) }

\* syn::ItemEnum
ItemEnum(generics, attrs, vattrs) ==
    [ident    |-> Ident("MyEnum", Span("enum", 0)),
     vis      |-> "pub",
     generics |-> [lt_token |-> generics],
     attrs    |-> attrs,
     variants |-> [i \in 1..Len(vattrs) |-> Variant(i, vattrs[i])]]

(***************************************************************************)
(* Parsing of metadata arguments (syn).                                    *)
(***************************************************************************)
\* attr.parse_args::<Ident>(): exactly one identifier between the parentheses
ParseArgsIdent(attr, span) ==
    IF attr.arg.kind = "ident"
    THEN Ok(Ident(attr.arg.text, span))
    ELSE Err([msg |-> "expected identifier", span |-> span])

\* attr.parse_args_with(Attribute::parse_outer): a list of #[...] entries
ParseArgsOuter(attr, span) ==
    IF attr.arg.kind = "attrs"
    THEN Ok(attr.arg.attrs)
    ELSE Err([msg |-> "expected #", span |-> span])

\* Attribute::parse_args::<VariantAttrs>: the parentheses of the entry are
\* stripped by parse_args, and VariantAttrs::parse asks for a group again
ParseVariantAttrs(attr, span) ==
    IF attr.arg.kind = "group"
    THEN Ok(attr.arg.attrs)
    ELSE Err([msg |-> "expected parentheses", span |-> span])

RECURSIVE ParseContent(_, _, _)
\* the while loop of ExtractVariant::parse over the tokens of the group
ParseContent(content, k, ev) ==
    IF k > Len(content) THEN Ok(ev)
    ELSE LET tok == content[k] IN
         CASE tok.key = "prefix" ->
                ParseContent(content, k + 1,
                    [ev EXCEPT !.prefix = Some(Ident(tok.text, Span("arg", k)))])
           [] tok.key = "suffix" ->
                ParseContent(content, k + 1,
                    [ev EXCEPT !.suffix = Some(Ident(tok.text, Span("arg", k)))])
           [] tok.key = "no_impl" ->
                ParseContent(content, k + 1, [ev EXCEPT !.no_impl = TRUE])
           [] tok.key = "," ->
                Err([msg |-> "expected identifier", span |-> Span("arg", k)])
           [] OTHER ->
                Err([msg |-> "invalid parameter name", span |-> Span("arg", k)])

ExtractVariantDefault == [prefix |-> None, suffix |-> None, no_impl |-> FALSE]

\* impl Parse for ExtractVariant, run by parse_macro_input! on attr_args:
\* tokens the parser leaves unread are an error of the macro input
ParseExtractVariant(args) ==
    IF args.paren
    THEN ParseContent(args.content, 1, ExtractVariantDefault)
    ELSE IF args.content = <<>>
         THEN Ok(ExtractVariantDefault)
         ELSE Err([msg |-> "unexpected token", span |-> Span("arg", 1)])

(***************************************************************************)
(* Resolve-Config of the derive entry point (extract_variant.rs).          *)
(***************************************************************************)
ConfigDefault == [prefix |-> None, suffix |-> None, no_impl |-> None]

PoundSpan(j) == Span("enum_attr", j)

FillPrefix(cfg, attr, j) ==
    IF cfg.prefix.some
    THEN Err([msg |-> "duplicate #[prefix] attribute", span |-> PoundSpan(cfg.prefix.v.attr)])
    ELSE LET p == ParseArgsIdent(attr, PoundSpan(j)) IN
         IF p.ok THEN Ok([cfg EXCEPT !.prefix = Some([attr |-> j, ident |-> p.v])])
         ELSE p

FillSuffix(cfg, attr, j) ==
    IF cfg.suffix.some
    THEN Err([msg |-> "duplicate #[suffix] attribute", span |-> PoundSpan(cfg.suffix.v.attr)])
    ELSE LET p == ParseArgsIdent(attr, PoundSpan(j)) IN
         IF p.ok THEN Ok([cfg EXCEPT !.suffix = Some([attr |-> j, ident |-> p.v])])
         ELSE p

FillNoImpl(cfg, attr, j) ==
    IF cfg.no_impl.some
    THEN Err([msg |-> "duplicate #[no_impl] attribute", span |-> PoundSpan(cfg.no_impl.v.attr)])
    ELSE Ok([cfg EXCEPT !.no_impl = Some([attr |-> j])])

RECURSIVE ScanAttrs(_, _, _)
\* the loop over item_enum.attrs: the first error ends it
ScanAttrs(attrs, j, cfg) ==
    IF j > Len(attrs) THEN Ok(cfg)
    ELSE LET attr == attrs[j]
             r == CASE attr.path = "prefix"  -> FillPrefix(cfg, attr, j)
                    [] attr.path = "suffix"  -> FillSuffix(cfg, attr, j)
                    [] attr.path = "no_impl" -> FillNoImpl(cfg, attr, j)
                    [] OTHER -> Ok(cfg)
         IN IF r.ok THEN ScanAttrs(attrs, j + 1, r.v) ELSE r

\* Option<(Attribute, Ident)> -> String: the text, or the empty string
PrefixString(opt) == IF opt.some THEN opt.v.ident.text ELSE ""

\* Option<Ident> -> String, for the parsed arguments of the attribute macro
ArgString(opt) == IF opt.some THEN opt.v.text ELSE ""

(***************************************************************************)
(* Record Generator and Conversion Derivation (lib.rs).                    *)
(***************************************************************************)
\* the indices of the entries of attrs whose path is the identifier path
IndicesOf(attrs, path) ==
    SelectSeq([i \in 1..Len(attrs) |-> i], LAMBDA i : attrs[i].path = path)

\* attrs.iter().filter(|attr| attr.path.is_ident(path)).cloned()
FilterPath(attrs, path) == SelectSeq(attrs, LAMBDA a : a.path = path)

\* Path::from(item_enum.ident.clone())
PathFrom(ident) == <<ident>>

\* generate_variant with the field list taken back to front
generate_variant_reversed(name, enum, variant) ==
    [kind         |-> "struct",
     attrs        |-> variant.attrs,
     vis          |-> enum.vis,
     struct_token |-> variant.ident.span,
     ident        |-> Ident(name, variant.ident.span),
     generics     |-> [lt_token |-> FALSE],
     fields       |-> [variant.fields EXCEPT !.list =
                          [k \in 1..Len(@) |-> @[Len(@) + 1 - k]]],
     semi_token   |-> None]

\* generate_variant: the record of one alternative
generate_variant(name, enum, variant) ==
    [kind         |-> "struct",
     attrs        |-> variant.attrs,
     vis          |-> enum.vis,
     struct_token |-> variant.ident.span,
     ident        |-> Ident(name, variant.ident.span),
     generics     |-> [lt_token |-> FALSE],
     fields       |-> variant.fields,
     semi_token   |-> None]

\* a pattern / constructor expression: Name, Name(_0, _1) or Name { a, b }
Pattern(ident, shape, binders) == [ident |-> ident, shape |-> shape, binders |-> binders]

\* the match of impl_variant on strct.fields: the (free, tied) pair
FreeTied(strct, variant_name) ==
    LET n == Len(strct.fields.list) IN
    CASE strct.fields.shape = "named" ->
            LET names == [k \in 1..n |-> strct.fields.list[k].ident] IN
            [free |-> Pattern(strct.ident, "named", names),
             tied |-> Pattern(variant_name, "named", names)]
      [] strct.fields.shape = "unnamed" ->
            LET id == [k \in 1..n |-> "_" \o FormatNat(k - 1)] IN
            [free |-> Pattern(strct.ident, "unnamed", id),
             tied |-> Pattern(variant_name, "unnamed", id)]
      [] OTHER ->
            [free |-> Pattern(strct.ident, "unit", <<>>),
             tied |-> Pattern(variant_name, "unit", <<>>)]

\* impl_variant without the marker declaration
impl_variant_no_marker(strct, enum_path, variant_name) ==
    LET name == IF variant_name.some THEN variant_name.v ELSE strct.ident
        ft   == FreeTied(strct, name)
    IN << [kind |-> "impl_from", enum_path |-> enum_path, strct_ident |-> strct.ident,
           free |-> ft.free, tied |-> ft.tied],
          [kind |-> "impl_try_from", enum_path |-> enum_path, strct_ident |-> strct.ident,
           free |-> ft.free, tied |-> ft.tied] >>

\* impl_variant: From, TryFrom and the marker, for one (record, union, name)
impl_variant(strct, enum_path, variant_name) ==
    LET name == IF variant_name.some THEN variant_name.v ELSE strct.ident
        ft   == FreeTied(strct, name)
    IN << [kind |-> "impl_from", enum_path |-> enum_path, strct_ident |-> strct.ident,
           free |-> ft.free, tied |-> ft.tied],
          [kind |-> "impl_try_from", enum_path |-> enum_path, strct_ident |-> strct.ident,
           free |-> ft.free, tied |-> ft.tied],
          [kind |-> "impl_variant", enum_path |-> enum_path, strct_ident |-> strct.ident] >>

\* Error::to_compile_error(): the error as tokens of the output
CompileError(e) == [kind |-> "compile_error", e |-> e]

\* quote! { #item_enum }
EnumItem(enum) == [kind |-> "enum", item |-> enum]

GenericError == [msg |-> "extract_variant does not support generic parameters",
                 span |-> Span("lt_token", 0)]

(***************************************************************************)
(* Derive entry point: one alternative (extract_variant.rs).               *)
(***************************************************************************)
\* the struct_name closure: prefix ++ variant.ident ++ suffix at the span of
\* the alternative; None when prefix and suffix are both empty
StructName(prefix, suffix) ==
    IF prefix = "" /\ suffix = "" THEN None
    ELSE Some([prefix |-> prefix, suffix |-> suffix])

\* the closure with the format arguments in the wrong order
ApplyStructNameMisordered(sn, variant) ==
    Ident(variant.ident.text \o sn.prefix \o sn.suffix, variant.ident.span)

ApplyStructName(sn, variant) ==
    Ident(sn.prefix \o variant.ident.text \o sn.suffix, variant.ident.span)

\* the name generate_variant gives the record when handed Option<Ident>
NameOrVariant(opt, variant) == IF opt.some THEN opt.v.text ELSE variant.ident.text

\* the filter of doit: alternatives without an exclude entry
NotExcluded(variant) == IndicesOf(variant.attrs, "exclude") = <<>>

\* generate_code copying the doc entries ahead of the derive entries
generate_code_docs_first(enum, variant, struct_name, no_impl, enum_path, i) ==
    LET named == IF struct_name.some
                 THEN Some(ApplyStructName(struct_name.v, variant)) ELSE None
        item_struct == generate_variant(NameOrVariant(named, variant), enum, variant)
        va     == IndicesOf(variant.attrs, "variant_attrs")
        parsed == IF va = <<>> THEN Ok(<<>>)
                  ELSE ParseArgsOuter(variant.attrs[va[1]], Span("variant_attr", i))
    IN IF Len(va) >= 2
       THEN Err([msg |-> "duplicate #[variant_attrs] attribute",
                 span |-> Span("variant_attr", i)])
       ELSE IF ~parsed.ok THEN parsed
       ELSE LET full == [item_struct EXCEPT !.attrs =
                            @ \o parsed.v
                              \o FilterPath(variant.attrs, "doc")
                              \o FilterPath(enum.attrs, "derive")]
            IN Ok(IF ~no_impl
                  THEN <<full>> \o impl_variant(full, enum_path, Some(variant.ident))
                  ELSE <<full>>)

generate_code(enum, variant, struct_name, no_impl, enum_path, i) ==
    LET named == IF struct_name.some
                 THEN Some(ApplyStructName(struct_name.v, variant)) ELSE None
        item_struct == generate_variant(NameOrVariant(named, variant), enum, variant)
        va     == IndicesOf(variant.attrs, "variant_attrs")
        parsed == IF va = <<>> THEN Ok(<<>>)
                  ELSE ParseArgsOuter(variant.attrs[va[1]], Span("variant_attr", i))
    IN IF Len(va) >= 2
       THEN Err([msg |-> "duplicate #[variant_attrs] attribute",
                 span |-> Span("variant_attr", i)])
       ELSE IF ~parsed.ok THEN parsed
       ELSE LET full == [item_struct EXCEPT !.attrs =
                            @ \o parsed.v
                              \o FilterPath(enum.attrs, "derive")
                              \o FilterPath(variant.attrs, "doc")]
            IN Ok(IF ~no_impl
                  THEN <<full>> \o impl_variant(full, enum_path, Some(variant.ident))
                  ELSE <<full>>)

(***************************************************************************)
(* Attribute entry point: one alternative (lib.rs, the map closure).       *)
(***************************************************************************)
\* the variant_name closure of lib.rs:244
VariantName(prefix, suffix) ==
    IF prefix = "" /\ suffix = "" THEN None
    ELSE Some([prefix |-> prefix, suffix |-> suffix])

VariantTokens(enum, variant, cfg, enum_path, i) ==
    LET name   == cfg.prefix \o variant.ident.text \o cfg.suffix
        strct  == generate_variant(name, enum, variant)
        va     == IndicesOf(variant.attrs, "variant_attrs")
        res    == IF va = <<>> THEN Ok(<<>>)
                  ELSE ParseVariantAttrs(variant.attrs[va[1]], Span("variant_attr", i))
        vn     == VariantName(cfg.prefix, cfg.suffix)
    IN IF ~res.ok THEN <<CompileError(res.e)>>
       ELSE LET full == [strct EXCEPT !.attrs = @ \o res.v]
                variant_name ==
                    IF vn.some
                    THEN Some(Ident(vn.v.prefix \o variant.ident.text \o vn.v.suffix,
                                    variant.ident.span))
                    ELSE None
            IN IF cfg.no_impl = FALSE
               THEN <<full>> \o impl_variant(full, enum_path, variant_name)
               ELSE <<full>>

(***************************************************************************)
(* The passes.                                                             *)
(***************************************************************************)
Pending == Err([msg |-> "pending", span |-> CallSite])
Unresolved == [prefix |-> "", suffix |-> "", no_impl |-> FALSE]
Idle == [op |-> "none"]
\* a pass over a union is handed no record
NoStruct == [kind |-> "none"]

\* the inputs of a pass: a union of NumVariants alternatives whose generic
\* parameter list, metadata entries and macro argument tokens are at most
\* budget in all
InitWith(budget) ==
    /\ \E g \in BOOLEAN :
       \E ea \in SeqsUpTo(EnumAttrAlphabet, budget - (IF g THEN 1 ELSE 0)) :
       \E va \in AttrAssignments(NumVariants, budget - (IF g THEN 1 ELSE 0) - Len(ea)) :
       \E e \in {"derive", "attribute"} :
       \E p \in BOOLEAN :
       \E c \in SeqsUpTo(ArgTokenAlphabet,
                         budget - (IF g THEN 1 ELSE 0) - Len(ea) - Len(Concat(va))) :
          /\ e = "derive" => c = <<>>
          /\ c = <<>> => ~p
          /\ entry = e
          /\ attr_args = [paren |-> p, content |-> c]
          /\ item_enum = ItemEnum(g, ea, va)
    /\ input_struct = NoStruct
    /\ pc = "validate"
    /\ config = Unresolved
    /\ idx = 1
    /\ acc = <<>>
    /\ result = Pending
    /\ out = <<>>
    /\ run = Idle

Init == InitWith(MaxAttrs)

\* doit without the check of the generic parameters
DoitValidateUnchecked ==
    /\ entry = "derive" /\ pc = "validate"
    /\ pc' = "config"
    /\ UNCHANGED <<entry, attr_args, item_enum, input_struct, config, idx, acc, result, out, run>>

\* doit, lines 18-25: generic parameters end the pass
DoitValidate ==
    /\ entry = "derive" /\ pc = "validate"
    /\ IF item_enum.generics.lt_token
       THEN /\ pc' = "done"
            /\ result' = Err(GenericError)
       ELSE /\ pc' = "config"
            /\ UNCHANGED result
    /\ UNCHANGED <<entry, attr_args, item_enum, input_struct, config, idx, acc, out, run>>

\* doit, lines 27-67: the scan of the union's metadata entries
DoitResolveConfig ==
    /\ entry = "derive" /\ pc = "config"
    /\ LET r == ScanAttrs(item_enum.attrs, 1, ConfigDefault) IN
       IF r.ok
       THEN /\ config' = [prefix  |-> PrefixString(r.v.prefix),
                          suffix  |-> PrefixString(r.v.suffix),
                          no_impl |-> r.v.no_impl.some]
            /\ pc' = "variants"
            /\ UNCHANGED result
       ELSE /\ pc' = "done"
            /\ result' = r
            /\ UNCHANGED config
    /\ UNCHANGED <<entry, attr_args, item_enum, input_struct, idx, acc, out, run>>

\* the fold of doit putting each alternative's declarations in front
DoitVariantPrepending ==
    /\ entry = "derive" /\ pc = "variants" /\ idx <= Len(item_enum.variants)
    /\ LET variant == item_enum.variants[idx]
           ts == generate_code(item_enum, variant,
                               StructName(config.prefix, config.suffix),
                               config.no_impl, PathFrom(item_enum.ident), idx)
       IN IF ~NotExcluded(variant)
          THEN /\ idx' = idx + 1
               /\ UNCHANGED <<pc, acc, result>>
          ELSE IF ts.ok
          THEN /\ idx' = idx + 1
               /\ acc' = ts.v \o acc
               /\ UNCHANGED <<pc, result>>
          ELSE /\ pc' = "done"
               /\ result' = ts
               /\ acc' = <<>>
               /\ UNCHANGED idx
    /\ UNCHANGED <<entry, attr_args, item_enum, input_struct, config, out, run>>

\* the fold of doit handing out what it had accumulated when it fails
DoitVariantPartial ==
    /\ entry = "derive" /\ pc = "variants" /\ idx <= Len(item_enum.variants)
    /\ LET variant == item_enum.variants[idx]
           ts == generate_code(item_enum, variant,
                               StructName(config.prefix, config.suffix),
                               config.no_impl, PathFrom(item_enum.ident), idx)
       IN IF ~NotExcluded(variant)
          THEN /\ idx' = idx + 1
               /\ UNCHANGED <<pc, acc, result, out>>
          ELSE IF ts.ok
          THEN /\ idx' = idx + 1
               /\ acc' = acc \o ts.v
               /\ UNCHANGED <<pc, result, out>>
          ELSE /\ pc' = "done"
               /\ result' = ts
               /\ out' = acc
               /\ UNCHANGED <<idx, acc>>
    /\ UNCHANGED <<entry, attr_args, item_enum, input_struct, config, run>>

\* doit, lines 69-81: filter, map and try_fold, one alternative at a time
DoitVariant ==
    /\ entry = "derive" /\ pc = "variants" /\ idx <= Len(item_enum.variants)
    /\ LET variant == item_enum.variants[idx]
           ts == generate_code(item_enum, variant,
                               StructName(config.prefix, config.suffix),
                               config.no_impl, PathFrom(item_enum.ident), idx)
       IN IF ~NotExcluded(variant)
          THEN /\ idx' = idx + 1
               /\ UNCHANGED <<pc, acc, result>>
          ELSE IF ts.ok
          THEN /\ idx' = idx + 1
               /\ acc' = acc \o ts.v
               /\ UNCHANGED <<pc, result>>
          ELSE /\ pc' = "done"
               /\ result' = ts
               /\ acc' = <<>>
               /\ UNCHANGED idx
    /\ UNCHANGED <<entry, attr_args, item_enum, input_struct, config, out, run>>

\* doit: the fold is through, the accumulated declarations are the result
DoitFinish ==
    /\ entry = "derive" /\ pc = "variants" /\ idx > Len(item_enum.variants)
    /\ pc' = "done"
    /\ result' = Ok(acc)
    /\ out' = acc
    /\ UNCHANGED <<entry, attr_args, item_enum, input_struct, config, idx, acc, run>>

\* extract_variant, lines 212-221
ExtractVariantValidate ==
    /\ entry = "attribute" /\ pc = "validate"
    /\ IF item_enum.generics.lt_token
       THEN /\ pc' = "done"
            /\ result' = Err(GenericError)
            /\ out' = <<CompileError(GenericError)>>
       ELSE /\ pc' = "config"
            /\ UNCHANGED <<result, out>>
    /\ UNCHANGED <<entry, attr_args, item_enum, input_struct, config, idx, acc, run>>

\* extract_variant, lines 223-248: the macro arguments
ExtractVariantParseArgs ==
    /\ entry = "attribute" /\ pc = "config"
    /\ LET r == ParseExtractVariant(attr_args) IN
       IF r.ok
       THEN /\ config' = [prefix  |-> ArgString(r.v.prefix),
                          suffix  |-> ArgString(r.v.suffix),
                          no_impl |-> r.v.no_impl]
            /\ pc' = "variants"
            /\ acc' = <<EnumItem(item_enum)>>
            /\ UNCHANGED <<result, out>>
       ELSE /\ pc' = "done"
            /\ result' = r
            /\ out' = <<CompileError(r.e)>>
            /\ UNCHANGED <<config, acc>>
    /\ UNCHANGED <<entry, attr_args, item_enum, input_struct, idx, run>>

\* extract_variant, lines 250-278 and the fold of line 282, one alternative
ExtractVariantVariant ==
    /\ entry = "attribute" /\ pc = "variants" /\ idx <= Len(item_enum.variants)
    /\ acc' = acc \o VariantTokens(item_enum, item_enum.variants[idx], config,
                                   PathFrom(item_enum.ident), idx)
    /\ idx' = idx + 1
    /\ UNCHANGED <<entry, attr_args, item_enum, input_struct, pc, config, result, out, run>>

\* the first compile_error! of a token stream, if any
FirstError(ts) ==
    LET es == SelectSeq(ts, LAMBDA it : it.kind = "compile_error") IN
    IF es = <<>> THEN None ELSE Some(es[1].e)

\* extract_variant, line 282: the folded stream is returned to the host
ExtractVariantFinish ==
    /\ entry = "attribute" /\ pc = "variants" /\ idx > Len(item_enum.variants)
    /\ pc' = "done"
    /\ out' = acc
    /\ result' = IF FirstError(acc).some THEN Err(FirstError(acc).v) ELSE Ok(acc)
    /\ UNCHANGED <<entry, attr_args, item_enum, input_struct, config, idx, acc, run>>

(***************************************************************************)
(* The generated conversions, run on values.                               *)
(*   a record value : [name |-> the record's identifier, fields |-> ...]   *)
(*   a union value  : [name |-> the active alternative,  fields |-> ...]   *)
(* fields holds one value per declared field, in declaration order.        *)
(***************************************************************************)
ValuesOf(ty) ==
    CASE ty = "i32"  -> {"0", "1"}
      [] ty = "bool" -> {"true", "false"}
      [] ty = "String" -> {"hello"}
      [] OTHER -> {"3.14"}

\* the values of a field list
FieldValues(fields) ==
    {f \in [1..Len(fields.list) -> UNION {ValuesOf(fields.list[k].ty) : k \in 1..Len(fields.list)}] :
        \A k \in 1..Len(fields.list) : f[k] \in ValuesOf(fields.list[k].ty)}

RecordValues(strct) == {[name |-> strct.ident.text, fields |-> f] : f \in FieldValues(strct.fields)}

UnionValues(enum) ==
    UNION { {[name |-> enum.variants[i].ident.text, fields |-> f] :
                f \in FieldValues(enum.variants[i].fields)} : i \in 1..Len(enum.variants) }

Range(seq) == {seq[k] : k \in 1..Len(seq)}

\* the position a pattern's binder reads or writes in a value of the type:
\* positional for Name(..), by field name for Name { .. }
Slot(pat, fields, b) ==
    IF pat.shape = "named"
    THEN CHOOSE k \in 1..Len(fields.list) : fields.list[k].ident = b
    ELSE CHOOSE k \in 1..Len(pat.binders) : pat.binders[k] = b

\* matching a value against a pattern binds each binder
Destructure(pat, fields, value) ==
    [b \in Range(pat.binders) |-> value[Slot(pat, fields, b)]]

\* evaluating a constructor expression under the bindings
Build(pat, fields, env) ==
    [k \in 1..Len(fields.list) |->
        env[CHOOSE b \in Range(pat.binders) : Slot(pat, fields, b) = k]]

\* the declaration of the record named text among the declarations ts
StructDecl(ts, text) ==
    LET ss == SelectSeq(ts, LAMBDA it : it.kind = "struct" /\ it.ident.text = text) IN ss[1]

HasVariant(enum, text) == \E i \in 1..Len(enum.variants) : enum.variants[i].ident.text = text

VariantDecl(enum, text) ==
    enum.variants[CHOOSE i \in 1..Len(enum.variants) : enum.variants[i].ident.text = text]

\* the host accepts the conversions: the alternative named by tied exists
\* in the union and has the fields the patterns bind
Typechecks(impl, strct, enum) ==
    /\ HasVariant(enum, impl.tied.ident.text)
    /\ VariantDecl(enum, impl.tied.ident.text).fields.shape = impl.tied.shape
    /\ [k \in 1..Len(strct.fields.list) |-> strct.fields.list[k].ty]
         = [k \in 1..Len(VariantDecl(enum, impl.tied.ident.text).fields.list) |->
                VariantDecl(enum, impl.tied.ident.text).fields.list[k].ty]
    /\ impl.tied.shape = "named" =>
         Range(impl.tied.binders) =
            {VariantDecl(enum, impl.tied.ident.text).fields.list[k].ident :
                k \in 1..Len(strct.fields.list)}

\* fn from(#free: #strct_ident) -> Self { Self::#tied }
EvalFrom(impl, strct, enum, r) ==
    [name   |-> impl.tied.ident.text,
     fields |-> Build(impl.tied, VariantDecl(enum, impl.tied.ident.text).fields,
                      Destructure(impl.free, strct.fields, r.fields))]

\* try_from matching the union value against the record's name
EvalTryFromByRecordName(impl, strct, enum, value) ==
    IF value.name = impl.free.ident.text
    THEN Ok([name   |-> impl.free.ident.text,
             fields |-> Build(impl.free, strct.fields,
                              Destructure(impl.tied,
                                          VariantDecl(enum, impl.tied.ident.text).fields,
                                          value.fields))])
    ELSE Err(value)

\* try_from handing back a value whose fields were moved out
EvalTryFromLossy(impl, strct, enum, value) ==
    IF value.name = impl.tied.ident.text
    THEN Ok([name   |-> impl.free.ident.text,
             fields |-> Build(impl.free, strct.fields,
                              Destructure(impl.tied,
                                          VariantDecl(enum, impl.tied.ident.text).fields,
                                          value.fields))])
    ELSE Err([value EXCEPT !.fields = <<>>])

\* if let #enum_path::#tied = value { Ok(#free) } else { Err(value) }
EvalTryFrom(impl, strct, enum, value) ==
    IF value.name = impl.tied.ident.text
    THEN Ok([name   |-> impl.free.ident.text,
             fields |-> Build(impl.free, strct.fields,
                              Destructure(impl.tied,
                                          VariantDecl(enum, impl.tied.ident.text).fields,
                                          value.fields))])
    ELSE Err(value)

ImplsOf(ts, kind) == {i \in 1..Len(ts) : ts[i].kind = kind}

\* a record value is converted into the union
CallFrom ==
    /\ pc = "done" /\ result.ok /\ run.op = "none"
    /\ \E i \in ImplsOf(out, "impl_from") :
         LET strct == StructDecl(out, out[i].strct_ident.text) IN
         /\ Typechecks(out[i], strct, item_enum)
         /\ \E r \in RecordValues(strct) :
               run' = [op |-> "from", impl |-> i, r |-> r,
                       u |-> EvalFrom(out[i], strct, item_enum, r)]
    /\ UNCHANGED <<entry, attr_args, item_enum, input_struct, pc, config, idx, acc, result, out>>

\* the union value just built is converted back into the same record
RoundTrip ==
    /\ run.op = "from"
    /\ LET i == run.impl + 1
           strct == StructDecl(out, out[i].strct_ident.text) IN
       run' = [op |-> "round_trip", impl |-> i, r |-> run.r, u |-> run.u,
               res |-> EvalTryFrom(out[i], strct, item_enum, run.u)]
    /\ UNCHANGED <<entry, attr_args, item_enum, input_struct, pc, config, idx, acc, result, out>>

\* any value of the union is converted into one of the records
CallTryFrom ==
    /\ pc = "done" /\ result.ok /\ run.op = "none"
    /\ \E i \in ImplsOf(out, "impl_try_from") :
         LET strct == StructDecl(out, out[i].strct_ident.text) IN
         /\ Typechecks(out[i], strct, item_enum)
         /\ \E u \in UnionValues(item_enum) :
               run' = [op |-> "try_from", impl |-> i, u |-> u,
                       res |-> EvalTryFrom(out[i], strct, item_enum, u)]
    /\ UNCHANGED <<entry, attr_args, item_enum, input_struct, pc, config, idx, acc, result, out>>

NextPass ==
    \/ DoitValidate
    \/ DoitResolveConfig
    \/ DoitVariant
    \/ DoitFinish
    \/ ExtractVariantValidate
    \/ ExtractVariantParseArgs
    \/ ExtractVariantVariant
    \/ ExtractVariantFinish

Spec == Init /\ [][NextPass]_vars

Next ==
    \/ NextPass
    \/ CallFrom
    \/ RoundTrip
    \/ CallTryFrom

\* the passes over the smaller inputs, followed by calls of the conversions
InitConv == InitWith(MaxConvAttrs)

SpecConv == InitConv /\ [][Next]_vars

(***************************************************************************)
(* Link-manual-record: a record the user wrote is tied to an alternative.  *)
(*   "variant_of"        -- lib.rs, variant_of(attr_args, input)           *)
(*   "variant_of_derive" -- variant_of.rs, doit(input_struct)               *)
(***************************************************************************)
\* the tokens a variant_of entry may hold between its parentheses
LinkTokenAlphabet ==
    { [key |-> "ident", text |-> "MyEnum"],
      [key |-> "ident", text |-> "Variant1"],
      [key |-> "ident", text |-> "Variant2"],
      [key |-> ",", text |-> ""] }

\* the argument tokens of a variant_of entry: content, wrapped in a group
\* of its own when paren holds
LinkArg(paren, content) ==
    [kind |-> "link", text |-> "", attrs |-> <<>>, paren |-> paren, content |-> content]

\* syn::ItemStruct as the user wrote it; its fields are those of shape i
ItemStruct(name, i, attrs) ==
    [kind         |-> "struct",
     attrs        |-> attrs,
     vis          |-> "pub",
     struct_token |-> Span("struct", 0),
     ident        |-> Ident(name, Span("struct", 0)),
     generics     |-> [lt_token |-> FALSE],
     fields       |-> ShapeOf(i),
     semi_token   |-> None]

\* impl Parse for VariantOf: a group, in it a path, a comma, and an
\* identifier if one follows; tokens left unread are an error
ParseVariantOf(args) ==
    LET c == args.content IN
    IF ~args.paren
    THEN Err([msg |-> "expected parentheses", span |-> Span("arg", 1)])
    ELSE IF Len(c) = 0 \/ c[1].key # "ident"
    THEN Err([msg |-> "expected identifier", span |-> Span("arg", 1)])
    ELSE IF Len(c) < 2 \/ c[2].key # ","
    THEN Err([msg |-> "expected ,", span |-> Span("arg", 2)])
    ELSE IF Len(c) = 2
    THEN Ok([enum_path    |-> PathFrom(Ident(c[1].text, Span("arg", 1))),
             variant_name |-> None])
    ELSE IF c[3].key = "ident" /\ Len(c) = 3
    THEN Ok([enum_path    |-> PathFrom(Ident(c[1].text, Span("arg", 1))),
             variant_name |-> Some(Ident(c[3].text, Span("arg", 3)))])
    ELSE Err([msg |-> "unexpected token",
              span |-> Span("arg", IF c[3].key = "ident" THEN 4 ELSE 3)])

MissingLink == [msg |-> "Variant require #[variant_of] attribute", span |-> CallSite]

\* the inputs of a link pass: a record of one of the shapes, named after an
\* alternative or not, and a variant_of entry of at most MaxLinkTokens
\* tokens; the union the path names is declared elsewhere
InitLink ==
    /\ \E e \in {"variant_of", "variant_of_derive"} :
       \E name \in {"MyStruct", "Variant1"} :
       \E i \in 1..NumVariants :
       \E d \in BOOLEAN :
       \E l \in BOOLEAN :
       \E p \in BOOLEAN :
       \E c \in SeqsUpTo(LinkTokenAlphabet, MaxLinkTokens) :
          /\ e = "variant_of" => l
          /\ ~l => (c = <<>> /\ ~p)
          /\ entry = e
          /\ attr_args = IF e = "variant_of"
                         THEN [paren |-> p, content |-> c]
                         ELSE [paren |-> FALSE, content |-> <<>>]
          /\ input_struct =
               ItemStruct(name, i,
                   (IF d THEN <<Attr("derive", ListArg("Debug"))>> ELSE <<>>)
                   \o (IF e = "variant_of_derive" /\ l
                       THEN <<Attr("variant_of", LinkArg(p, c))>> ELSE <<>>))
    /\ item_enum = ItemEnum(FALSE, <<>>, [k \in 1..NumVariants |-> <<>>])
    /\ pc = "link"
    /\ config = Unresolved
    /\ idx = 1
    /\ acc = <<>>
    /\ result = Pending
    /\ out = <<>>
    /\ run = Idle

\* variant_of, lib.rs:285-296
VariantOfMacro ==
    /\ entry = "variant_of" /\ pc = "link"
    /\ LET r == ParseVariantOf(attr_args) IN
       IF r.ok
       THEN /\ out' = impl_variant(input_struct, r.v.enum_path, r.v.variant_name)
            /\ result' = Ok(out')
       ELSE /\ out' = <<CompileError(r.e)>>
            /\ result' = r
    /\ pc' = "done"
    /\ UNCHANGED <<entry, attr_args, item_enum, input_struct, config, idx, acc, run>>

\* doit, variant_of.rs:6-23: the first variant_of entry of the record
VariantOfDoit ==
    /\ entry = "variant_of_derive" /\ pc = "link"
    /\ LET va == IndicesOf(input_struct.attrs, "variant_of")
           r  == IF va = <<>> THEN Err(MissingLink)
                 ELSE ParseVariantOf(input_struct.attrs[va[1]].arg)
       IN IF r.ok
          THEN /\ out' = impl_variant(input_struct, r.v.enum_path, r.v.variant_name)
               /\ result' = Ok(out')
          ELSE /\ out' = <<>>
               /\ result' = r
    /\ pc' = "done"
    /\ UNCHANGED <<entry, attr_args, item_enum, input_struct, config, idx, acc, run>>

NextLink ==
    \/ VariantOfMacro
    \/ VariantOfDoit

SpecLink == InitLink /\ [][NextLink]_vars

(***************************************************************************)
(* Vocabulary of the properties.                                           *)
(***************************************************************************)
Done == pc = "done"
Succeeded == pc = "done" /\ result.ok

Alternatives == 1..Len(item_enum.variants)
Alt(i) == item_enum.variants[i]
MarkedExclude(i) == \E k \in 1..Len(Alt(i).attrs) : Alt(i).attrs[k].path = "exclude"

\* the records of the output generated from alternative i: a generated
\* record carries the source position of its alternative
RecordsFor(i) ==
    SelectSeq(out, LAMBDA it : it.kind = "struct" /\ it.ident.span = Alt(i).ident.span)

\* the declarations of one kind derived for the record of alternative i
ImplsFor(i, kind) ==
    {k \in 1..Len(out) : out[k].kind = kind /\ out[k].strct_ident.span = Alt(i).ident.span}

\* the declarations of the output, the host's error tokens left out
Declarations(ts) == SelectSeq(ts, LAMBDA it : it.kind # "compile_error")

\* the alternative a record of the output was generated from
SourceOf(strct) == Alt(strct.ident.span.n)

(***************************************************************************)
(* C1 -- round trip                                                        *)
(***************************************************************************)
\* C1: converting a record value into the union and converting the result
\* back into the same record returns Ok of the original value, every field
\* equal and in its original place, for all three shapes.
C1_RoundTrip ==
    run.op = "round_trip" => run.res = Ok(run.r)

\* a record with two named fields went through the round trip
C1_Witness ==
    /\ run.op = "round_trip"
    /\ StructDecl(out, run.r.name).fields.shape = "named"
    /\ Len(run.r.fields) = 2
    /\ run.res.ok

(***************************************************************************)
(* C2 -- non-destructive failure                                           *)
(***************************************************************************)
\* C2: the fallible conversion into the record of an alternative succeeds
\* exactly when the union value's active alternative is that alternative;
\* otherwise it returns Err of the value it was given, tag and fields intact.
C2_FailureReturnsOriginal ==
    run.op = "try_from" =>
        LET target == SourceOf(StructDecl(out, out[run.impl].strct_ident.text)) IN
        /\ run.res.ok <=> run.u.name = target.ident.text
        /\ ~run.res.ok => run.res.e = run.u

\* a union value carrying fields was refused and handed back
C2_Witness ==
    /\ run.op = "try_from"
    /\ ~run.res.ok
    /\ Len(run.u.fields) = 2
    /\ run.res.e = run.u

(***************************************************************************)
(* C3 -- exclusion                                                         *)
(***************************************************************************)
\* C3: in a successful pass every alternative not marked exclude has exactly
\* one generated record, and an alternative marked exclude has no record,
\* no conversion and no marker in the output.
C3_ExcludedContributeNothing ==
    Succeeded =>
        \A i \in Alternatives :
            IF MarkedExclude(i)
            THEN /\ Len(RecordsFor(i)) = 0
                 /\ ImplsFor(i, "impl_from") = {}
                 /\ ImplsFor(i, "impl_try_from") = {}
                 /\ ImplsFor(i, "impl_variant") = {}
            ELSE Len(RecordsFor(i)) = 1

(***************************************************************************)
(* C4 -- shape translation                                                 *)
(***************************************************************************)
\* C4: every generated record has the shape of its alternative, as many
\* fields, the same field types in the same order and, for named fields,
\* the same names in the same order; every non-excluded alternative of a
\* successful pass has such a record.
C4_ShapePreserved ==
    /\ \A k \in 1..Len(acc) :
          acc[k].kind = "struct" =>
             LET v == SourceOf(acc[k]) IN
             /\ acc[k].fields.shape = v.fields.shape
             /\ Len(acc[k].fields.list) = Len(v.fields.list)
             /\ \A f \in 1..Len(v.fields.list) :
                   /\ acc[k].fields.list[f].ty = v.fields.list[f].ty
                   /\ acc[k].fields.list[f].ident = v.fields.list[f].ident
    /\ Succeeded => \A i \in Alternatives : ~MarkedExclude(i) => Len(RecordsFor(i)) = 1

\* a pass that renames the records has emitted the record of a named and of
\* a positional alternative
C4_Witness ==
    /\ Succeeded
    /\ config.prefix # ""
    /\ \E i, j \in Alternatives :
          /\ Alt(i).fields.shape = "named" /\ Len(RecordsFor(i)) = 1
          /\ Alt(j).fields.shape = "unnamed" /\ Len(RecordsFor(j)) = 1

(***************************************************************************)
(* C5 -- field visibility                                                  *)
(***************************************************************************)
\* C5: every field of every generated record is public, whatever its
\* visibility in the alternative.
C5_AllFieldsPublic ==
    \A k \in 1..Len(acc) :
        acc[k].kind = "struct" =>
            \A f \in 1..Len(acc[k].fields.list) : acc[k].fields.list[f].vis = "pub"

(***************************************************************************)
(* C6 -- name synthesis                                                    *)
(***************************************************************************)
\* C6: the identifier of a generated record is the text prefix ++ name of
\* the alternative ++ suffix; with both empty it is the alternative's own
\* identifier, text and source position.
C6_NameSynthesis ==
    \A k \in 1..Len(acc) :
        acc[k].kind = "struct" =>
            LET v == SourceOf(acc[k]) IN
            /\ acc[k].ident.text = config.prefix \o v.ident.text \o config.suffix
            /\ (config.prefix = "" /\ config.suffix = "") => acc[k].ident = v.ident

\* a pass with a prefix and a suffix has emitted MyEnumVariant1Struct
C6_Witness ==
    /\ Succeeded
    /\ config.prefix = "MyEnum" /\ config.suffix = "Struct"
    /\ \E k \in 1..Len(out) :
          out[k].kind = "struct" /\ out[k].ident.text = "MyEnumVariant1Struct"

(***************************************************************************)
(* C7 -- prefix nested in the generation directive                         *)
(***************************************************************************)
\* the union carries #[extract_variant(prefix(MyEnum))]: as a metadata entry
\* of the union (derive), as the arguments of the macro (attribute)
NestedPrefixGiven ==
    \/ /\ entry = "derive"
       /\ \E j \in 1..Len(item_enum.attrs) :
             item_enum.attrs[j] = Attr("extract_variant", NestedArg("prefix", "MyEnum"))
    \/ /\ entry = "attribute"
       /\ attr_args = [paren |-> FALSE, content |-> <<[key |-> "prefix", text |-> "MyEnum"]>>]

\* C7: with #[extract_variant(prefix(MyEnum))] on the union, every record a
\* finished pass generates is named MyEnum ++ the alternative's name.
C7_NestedPrefixApplied ==
    (Done /\ NestedPrefixGiven /\ ~item_enum.generics.lt_token
          /\ Len(item_enum.attrs) <= 1 /\ \A i \in Alternatives : Alt(i).attrs = <<>>) =>
        /\ result.ok
        /\ \A i \in Alternatives :
              /\ Len(RecordsFor(i)) = 1
              /\ RecordsFor(i)[1].ident.text = "MyEnum" \o Alt(i).ident.text

(***************************************************************************)
(* C8 -- duplicate declarations                                            *)
(***************************************************************************)
ConfigKeys == {"prefix", "suffix", "no_impl"}

\* how often the union declares a configuration key: among its metadata
\* entries (derive), among the arguments of the directive (attribute)
Declared(key) ==
    IF entry = "derive"
    THEN Cardinality({j \in 1..Len(item_enum.attrs) : item_enum.attrs[j].path = key})
    ELSE Cardinality({j \in 1..Len(attr_args.content) : attr_args.content[j].key = key})

\* every configuration entry of the union has the arguments its key takes
WellFormedConfig ==
    IF entry = "derive"
    THEN \A j \in 1..Len(item_enum.attrs) :
            item_enum.attrs[j].path \in {"prefix", "suffix"} =>
                item_enum.attrs[j].arg.kind = "ident"
    ELSE attr_args.paren /\ \A j \in 1..Len(attr_args.content) : attr_args.content[j].key # ","

DuplicateMessages ==
    { "duplicate #[prefix] attribute", "duplicate #[suffix] attribute",
      "duplicate #[no_impl] attribute" }

\* C8: a union declaring prefix, suffix or no_impl twice makes the pass fail
\* with a duplicate error and no output; a union declaring each at most once
\* passes configuration.
C8_DuplicatesRejected ==
    (Done /\ ~item_enum.generics.lt_token /\ WellFormedConfig) =>
        IF \E key \in ConfigKeys : Declared(key) >= 2
        THEN /\ ~result.ok
             /\ result.e.msg \in DuplicateMessages
             /\ out = <<>>
        ELSE result.ok \/ result.e.msg \notin DuplicateMessages

(***************************************************************************)
(* C9 -- suppression                                                       *)
(***************************************************************************)
\* C9: a successful pass resolves no_impl exactly when the union declares
\* it; with no_impl the output holds no conversion and no marker, and a
\* record for every non-excluded alternative; without
\* no_impl every non-excluded alternative has exactly its two conversions
\* and one marker.
C9_Suppression ==
    Succeeded =>
      /\ config.no_impl <=> Declared("no_impl") >= 1
      /\ \A i \in Alternatives :
              IF config.no_impl
              THEN /\ ImplsFor(i, "impl_from") = {}
                   /\ ImplsFor(i, "impl_try_from") = {}
                   /\ ImplsFor(i, "impl_variant") = {}
                   /\ ~MarkedExclude(i) => Len(RecordsFor(i)) = 1
              ELSE ~MarkedExclude(i) =>
                      /\ Cardinality(ImplsFor(i, "impl_from")) = 1
                      /\ Cardinality(ImplsFor(i, "impl_try_from")) = 1
                      /\ Cardinality(ImplsFor(i, "impl_variant")) = 1

\* a pass with no_impl has emitted all its records and nothing else of theirs
C9_Witness ==
    /\ Succeeded
    /\ config.no_impl
    /\ \A i \in Alternatives : Len(RecordsFor(i)) = 1 /\ ImplsFor(i, "impl_from") = {}

(***************************************************************************)
(* C10 -- generic unions                                                   *)
(***************************************************************************)
\* C10: a union with generic parameters never reaches configuration or an
\* alternative: the pass goes from validation straight to its end, fails
\* with the one shape-violation error and emits no declaration, whatever
\* else the union carries.
C10_GenericRejectedFirst ==
    item_enum.generics.lt_token =>
        /\ pc \in {"validate", "done"}
        /\ config = Unresolved
        /\ acc = <<>>
        /\ Done => /\ result = Err(GenericError)
                   /\ Declarations(out) = <<>>

\* a generic union that also declares prefix twice has been rejected
C10_Witness ==
    /\ Done
    /\ item_enum.generics.lt_token
    /\ Cardinality({j \in 1..Len(item_enum.attrs) : item_enum.attrs[j].path = "prefix"}) = 2
    /\ result = Err(GenericError)

(***************************************************************************)
(* C11 -- declaration-order output                                         *)
(***************************************************************************)
\* the positions of the records in a list of declarations
RecordPositions(ts) == {k \in 1..Len(ts) : ts[k].kind = "struct"}

\* C11: the alternatives are processed in declared order, and in the output
\* of a successful pass the records stand in the order of their
\* alternatives, each record directly followed by its own total and then
\* its own fallible conversion, ahead of the next record.
C11_DeclarationOrder ==
    /\ pc = "variants" =>
          \A k \in RecordPositions(acc) : acc[k].ident.span.n < idx
    /\ Succeeded =>
          /\ \A k1, k2 \in RecordPositions(out) :
                k1 < k2 => out[k1].ident.span.n < out[k2].ident.span.n
          /\ \A k \in ImplsOf(out, "impl_from") :
                /\ k > 1
                /\ out[k - 1].kind = "struct"
                /\ out[k - 1].ident = out[k].strct_ident
          /\ \A k \in ImplsOf(out, "impl_try_from") :
                /\ k > 2
                /\ out[k - 1].kind = "impl_from"
                /\ out[k - 1].strct_ident = out[k].strct_ident
                /\ out[k - 2].kind = "struct"
                /\ out[k - 2].ident = out[k].strct_ident

\* the first and the third alternative have their records and conversions
\* in the output, the second one was skipped
C11_Witness ==
    /\ Succeeded
    /\ entry = "derive"
    /\ MarkedExclude(2)
    /\ Cardinality(RecordPositions(out)) = 2
    /\ Cardinality(ImplsOf(out, "impl_try_from")) = 2

(***************************************************************************)
(* C12 -- the union is emitted again                                       *)
(***************************************************************************)
\* C12: the output of a successful pass starts with the union definition,
\* exactly as it was handed to the pass, and whatever is generated follows
\* it; no other declaration of the output is a union.
C12_UnionEmittedFirst ==
    Succeeded =>
        /\ out # <<>>
        /\ out[1] = EnumItem(item_enum)
        /\ \A k \in 2..Len(out) : out[k].kind # "enum"

(***************************************************************************)
(* C13 -- all or nothing (doit)                                            *)
(***************************************************************************)
\* alternative i is not excluded and generate_code cannot process it: it
\* carries variant_attrs twice, or once with a payload that does not parse
AlternativeFails(i) ==
    LET va == IndicesOf(Alt(i).attrs, "variant_attrs") IN
    /\ ~MarkedExclude(i)
    /\ \/ Len(va) >= 2
       \/ Len(va) = 1 /\ ~ParseArgsOuter(Alt(i).attrs[va[1]], CallSite).ok

LinkTokens ==
    IF entry = "variant_of" THEN Some(attr_args)
    ELSE LET va == IndicesOf(input_struct.attrs, "variant_of") IN
         IF va = <<>> THEN None
         ELSE Some([paren   |-> input_struct.attrs[va[1]].arg.paren,
                    content |-> input_struct.attrs[va[1]].arg.content])

\* the entry reads variant_of(MyEnum)
PathForm ==
    /\ LinkTokens.some
    /\ LinkTokens.v = [paren |-> FALSE, content |-> <<[key |-> "ident", text |-> "MyEnum"]>>]

\* the entry reads variant_of(MyEnum, v)
PathIdentForm(v) ==
    /\ LinkTokens.some
    /\ LinkTokens.v = [paren   |-> FALSE,
                       content |-> <<[key |-> "ident", text |-> "MyEnum"],
                                     [key |-> ",", text |-> ""],
                                     [key |-> "ident", text |-> v]>>]

\* the output is the two conversions and the marker of (record, MyEnum, v)
LinkOutputFor(v) ==
    /\ Len(out) = 3
    /\ out[1].kind = "impl_from" /\ out[2].kind = "impl_try_from"
    /\ out[3].kind = "impl_variant"
    /\ \A k \in 1..3 :
          /\ out[k].strct_ident = input_struct.ident
          /\ Len(out[k].enum_path) = 1 /\ out[k].enum_path[1].text = "MyEnum"
    /\ \A k \in 1..2 :
          /\ out[k].tied.ident.text = v
          /\ out[k].free.ident = input_struct.ident

\* C14: a finished link pass whose entry reads variant_of(MyEnum) has
\* succeeded with the conversions of the alternative named like the record;
\* one whose entry reads variant_of(MyEnum, v) has succeeded with those of
\* alternative v; the output is two conversions and a marker, no record.
C14_BothFormsAccepted ==
    pc = "done" =>
        /\ PathForm => (result.ok /\ LinkOutputFor(input_struct.ident.text))
        /\ \A v \in {"Variant1", "Variant2"} :
              PathIdentForm(v) => (result.ok /\ LinkOutputFor(v))

(***************************************************************************)
(* C15 -- metadata of a generated record (doit)                            *)
(***************************************************************************)
\* the entries of the payload of alternative v's variant_attrs entry
PayloadOf(v) ==
    LET va == SelectSeq(v.attrs, LAMBDA a : a.path = "variant_attrs") IN
    IF va = <<>> THEN <<>> ELSE va[1].arg.attrs

\* the entries of the union whose key is derive
DeriveEntries == SelectSeq(item_enum.attrs, LAMBDA a : a.path = "derive")

\* the doc entries of alternative v, in their order
DocEntries(v) == SelectSeq(v.attrs, LAMBDA a : a.path = "doc")

\* what the pass appended to the metadata generate_variant gave record r
AppendedTo(r) == SubSeq(r.attrs, Len(SourceOf(r).attrs) + 1, Len(r.attrs))

C16_ConversionsNameAlternative ==
    (Succeeded /\ (config.prefix # "" \/ config.suffix # "")) =>
        \A k \in ImplsOf(out, "impl_from") \cup ImplsOf(out, "impl_try_from") :
            LET strct == StructDecl(out, out[k].strct_ident.text)
                v     == SourceOf(strct)
            IN /\ strct.ident.text = config.prefix \o v.ident.text \o config.suffix
               /\ out[k].free.ident = strct.ident
               /\ out[k].tied.ident.text = v.ident.text
               /\ Typechecks(out[k], strct, item_enum)

====
